---------------------------- MODULE Spec2Model ----------------------------
(***************************************************************************)
(* State-machine model of the VideoFrameExtractor React component          *)
(* (src/src/components/VideoRecorder.tsx): the frame capture timer, the    *)
(* frame store with per-frame selection, the eye-side tag and the two      *)
(* export handlers.                                                        *)
(*                                                                         *)
(* React state (frames, isExtracting, videoFile, eyeSide) and refs         *)
(* (globalFrameId, frameIntervalRef) are variables.  A handler created by  *)
(* a render closes over that render's state; the only closure that         *)
(* outlives its render is the setInterval callback, so every scheduled     *)
(* timer carries the eyeSide its extractFrames closed over.                *)
(***************************************************************************)
EXTENDS Integers, Sequences, FiniteSets, TLC

VARIABLES
    frames,            \* useState<Frame[]>: the frame store, in capture order
    isExtracting,      \* useState(false): the running flag shown to the user
    videoFile,         \* useState<File | null>
    eyeSide,           \* useState<"OD" | "OE">("OD"): the eye-side tag
    globalFrameId,     \* useRef<number>(0): the id counter
    frameIntervalRef,  \* useRef<number | null>(null): handle of the timer
    timers,            \* the intervals the window has scheduled, each with the
                       \* eyeSide captured by its callback's closure
    videoSrc,          \* video.src: 0 = none, n = the n-th object URL created
    paused,            \* video.paused
    ended,             \* video.ended
    muted,             \* video.muted
    clock,             \* the time new Date() last returned, in ms
    out                \* what the handler that ran last showed or delivered

vars == <<frames, isExtracting, videoFile, eyeSide, globalFrameId,
          frameIntervalRef, timers, videoSrc, paused, ended, muted, clock, out>>

-----------------------------------------------------------------------------
(* Bounds of the model *)

\* the id counter is not advanced beyond this value
MaxFrameId == 3
\* at most this many video files are loaded
MaxLoads == 2
\* at most this many intervals are scheduled at the same time
MaxTimers == 2

(* Program constants *)

\* the period of the capture interval, in ms
IntervalMs == 500

EyeSides == {"OD", "OE"}
Files == {"a.mp4", "b.mp4"}
NoFile == "null"
NoTimer == 0

-----------------------------------------------------------------------------
(* Pure helpers *)

\* a file name with the tag and the id in each other's place
FileName_swapped(id, eye) == "frame_" \o eye \o "_" \o ToString(id) \o ".png"

\* `frame_${globalFrameId.current}_${eyeSide}.png`
FileName(id, eye) == "frame_" \o ToString(id) \o "_" \o eye \o ".png"

\* canvas.toDataURL("image/png"): the parts around the single comma of the
\* data URL; the payload stands for the pixels of the video being played
toDataURL(src) == <<"data:image/png;base64", "png" \o ToString(src)>>

\* frame.uri.split(",")[1]
base64Data(uri) == uri[2]

Pad(n, width) ==
    LET s == ToString(n)
    IN  IF Len(s) >= width THEN s
        ELSE IF width - Len(s) = 1 THEN "0" \o s
        ELSE IF width - Len(s) = 2 THEN "00" \o s
        ELSE "000" \o s

\* Date.prototype.toISOString for the instants of the model (ms since the
\* epoch, below one hour)
toISOString(ms) ==
    "1970-01-01T00:" \o Pad((ms \div 60000) % 60, 2) \o ":"
        \o Pad((ms \div 1000) % 60, 2) \o "." \o Pad(ms % 1000, 3) \o "Z"

\* the Frame object literal of the interval callback
NewFrame(id, eye, src, now) ==
    [ id       |-> id,
      uri      |-> toDataURL(src),
      fileName |-> FileName(id, eye),
      takenAt  |-> now,
      selected |-> FALSE,
      eyeSide  |-> eye ]

\* a counter that skips a value
NextFrameId_skip(id) == id + 2

\* a counter that is never advanced
NextFrameId_stuck(id) == id

\* globalFrameId.current += 1
NextFrameId(id) == id + 1

\* frames.filter((frame) => frame.selected)
SelectedFrames(fs) == SelectSeq(fs, LAMBDA f : f.selected)

\* a toggle that flips the eye side together with the selection
ToggleFrame_retag(frame, id) ==
    IF frame.id = id
    THEN [frame EXCEPT !.selected = ~@,
                       !.eyeSide = IF @ = "OD" THEN "OE" ELSE "OD"]
    ELSE frame

\* a toggle that selects instead of flipping
ToggleFrame_select(frame, id) ==
    IF frame.id = id THEN [frame EXCEPT !.selected = TRUE] ELSE frame

\* a toggle that compares the ids with >= instead of ===
ToggleFrame_atLeast(frame, id) ==
    IF frame.id >= id THEN [frame EXCEPT !.selected = ~@] ELSE frame

\* frame.id === id ? { ...frame, selected: !frame.selected } : frame
ToggleFrame(frame, id) ==
    IF frame.id = id THEN [frame EXCEPT !.selected = ~@] ELSE frame

\* prevFrames.map(...)
ToggledFrames(fs, id) == [i \in 1..Len(fs) |-> ToggleFrame(fs[i], id)]

\* window.setInterval returns a handle no live interval has
FreshHandle == CHOOSE h \in 1..(MaxTimers + 1) : \A t \in timers : t.h # h

-----------------------------------------------------------------------------
(* Outputs of a handler *)

AlertNoneSelected == "Nenhuma imagem foi selecionada, todas serao baixadas."
AlertNothingToDownload == "Nenhuma imagem disponivel para download."
AlertCount(n) ==
    ToString(n) \o " imagens serao baixadas. Confirme os downloads no seu navegador."

\* alerts: the alert() calls; downloads: the link.click() calls; saved: the
\* saveAs() calls, each in call order
NoOutput == [op |-> "none", alerts |-> <<>>, downloads |-> <<>>, saved |-> <<>>]

\* JSZip: an archive is a map from entry name to entry; adding a name that
\* exists replaces the entry
ZipPut(zip, entry) == {e \in zip : e.name # entry.name} \cup {entry}
ZipFolder(zip, name) == ZipPut(zip, [name |-> name \o "/", dir |-> TRUE, data |-> <<>>])
ZipFile(zip, name, data) == ZipPut(zip, [name |-> name, dir |-> FALSE, data |-> data])

\* every frame filed under OD
FolderOf_alwaysOD(frame) == "OD"

\* folder of a frame inside the archive
FolderOf(frame) == IF frame.eyeSide = "OD" THEN "OD" ELSE "OE"

RECURSIVE ZipFrames(_, _)
\* selectedFrames.forEach(frame => folder.file(frame.fileName, base64Data))
ZipFrames(zip, fs) ==
    IF fs = <<>> THEN zip
    ELSE ZipFrames(ZipFile(zip, FolderOf(Head(fs)) \o "/" \o Head(fs).fileName,
                           <<"base64", base64Data(Head(fs).uri)>>),
                   Tail(fs))

\* selectedFrames.map(frame => ({id, fileName, eyeSide, takenAt}))
FramesInfo(fs) ==
    [i \in 1..Len(fs) |->
        [ id       |-> fs[i].id,
          fileName |-> fs[i].fileName,
          eyeSide  |-> fs[i].eyeSide,
          takenAt  |-> toISOString(fs[i].takenAt) ]]

\* the archive built by downloadSelectedImages; the manifest's data is the
\* array JSON.stringify serialises
BuildZip(fs) ==
    ZipFile(ZipFrames(ZipFolder(ZipFolder({}, "OD"), "OE"), fs),
            "frames_info.json", <<"json", FramesInfo(fs)>>)

\* an archive export without the early return on an empty selection
ArchiveOutput_noReturn(fs) ==
    [NoOutput EXCEPT !.op = "downloadSelectedImages",
                     !.saved = << [ name |-> "frames_selecionados.zip",
                                    zip  |-> BuildZip(SelectedFrames(fs)) ] >>]

\* downloadSelectedImages: what it shows and delivers for the store fs
ArchiveOutput(fs) ==
    LET selectedFrames == SelectedFrames(fs)
    IN  IF Len(selectedFrames) = 0
        THEN [NoOutput EXCEPT !.op = "downloadSelectedImages",
                              !.alerts = <<AlertNoneSelected>>]
        ELSE [NoOutput EXCEPT !.op = "downloadSelectedImages",
                              !.saved = << [ name |-> "frames_selecionados.zip",
                                             zip  |-> BuildZip(selectedFrames) ] >>]

\* a download set that ignores the selection
FramesToDownload_all(fs) == fs

\* downloadAllImages: the frames it downloads
FramesToDownload(fs) ==
    IF Len(SelectedFrames(fs)) > 0 THEN SelectedFrames(fs) ELSE fs

\* downloadAllImages: what it shows and delivers for the store fs
DownloadOutput(fs) ==
    LET framesToDownload == FramesToDownload(fs)
    IN  IF Len(framesToDownload) = 0
        THEN [NoOutput EXCEPT !.op = "downloadAllImages",
                              !.alerts = <<AlertNothingToDownload>>]
        ELSE [NoOutput EXCEPT
                !.op = "downloadAllImages",
                !.alerts = <<AlertCount(Len(framesToDownload))>>,
                !.downloads = [i \in 1..Len(framesToDownload) |->
                                  [ href     |-> framesToDownload[i].uri,
                                    download |-> framesToDownload[i].fileName ]]]

-----------------------------------------------------------------------------
(* Initial state: the component after its first render *)

Init ==
    /\ frames = <<>>
    /\ isExtracting = FALSE
    /\ videoFile = NoFile
    /\ eyeSide = "OD"
    /\ globalFrameId = 0
    /\ frameIntervalRef = NoTimer
    /\ timers = {}
    /\ videoSrc = 0
    /\ paused = TRUE
    /\ ended = FALSE
    /\ muted = FALSE
    /\ clock = 0
    /\ out = NoOutput

-----------------------------------------------------------------------------
(* Handlers *)

\* an extractFrames that sets the running flag before it looks for the
\* canvas context
extractFrames_flagFirst(hasContext) ==
    /\ Cardinality(timers) < MaxTimers
    /\ out' = NoOutput
    /\ isExtracting' = TRUE
    /\ IF ~hasContext
       THEN UNCHANGED <<frames, videoFile, eyeSide, globalFrameId,
                        frameIntervalRef, timers, videoSrc, paused, ended,
                        muted, clock>>
       ELSE /\ muted' = TRUE
            /\ timers' = timers \cup {[h |-> FreshHandle, eye |-> eyeSide]}
            /\ frameIntervalRef' = FreshHandle
            /\ IF videoSrc # 0
               THEN paused' = FALSE /\ ended' = FALSE
               ELSE UNCHANGED <<paused, ended>>
            /\ UNCHANGED <<frames, videoFile, eyeSide, globalFrameId, videoSrc,
                           clock>>

\* extractFrames; hasContext: whether canvas.getContext("2d") returned a
\* context.  video.play() starts (or restarts) playback when a source is set.
extractFrames(hasContext) ==
    /\ Cardinality(timers) < MaxTimers
    /\ out' = NoOutput
    /\ IF ~hasContext
       THEN UNCHANGED <<frames, isExtracting, videoFile, eyeSide, globalFrameId,
                        frameIntervalRef, timers, videoSrc, paused, ended,
                        muted, clock>>
       ELSE /\ isExtracting' = TRUE
            /\ muted' = TRUE
            /\ timers' = timers \cup {[h |-> FreshHandle, eye |-> eyeSide]}
            /\ frameIntervalRef' = FreshHandle
            /\ IF videoSrc # 0
               THEN paused' = FALSE /\ ended' = FALSE
               ELSE UNCHANGED <<paused, ended>>
            /\ UNCHANGED <<frames, videoFile, eyeSide, globalFrameId, videoSrc,
                           clock>>

\* a stop that forgets window.clearInterval
stopExtractingBody_noClear ==
    /\ timers' = timers
    /\ frameIntervalRef' = NoTimer
    /\ isExtracting' = FALSE

\* a stop that forgets setIsExtracting(false)
stopExtractingBody_keepFlag ==
    /\ timers' = {t \in timers : t.h # frameIntervalRef}
    /\ frameIntervalRef' = NoTimer
    /\ isExtracting' = isExtracting

\* a stop that clears the interval but keeps its handle in the ref
stopExtractingBody_keepHandle ==
    /\ timers' = {t \in timers : t.h # frameIntervalRef}
    /\ frameIntervalRef' = frameIntervalRef
    /\ isExtracting' = FALSE

\* the body of stopExtracting: the state it leaves in the refs and the flag
stopExtractingBody ==
    /\ timers' = {t \in timers : t.h # frameIntervalRef}
    /\ frameIntervalRef' = NoTimer
    /\ isExtracting' = FALSE

\* stopExtracting
stopExtracting ==
    /\ stopExtractingBody
    /\ out' = NoOutput
    /\ UNCHANGED <<frames, videoFile, eyeSide, globalFrameId, videoSrc, paused,
                   ended, muted, clock>>

\* a callback that stops only when the video is paused and ended
intervalCallback_pausedAndEnded(t) ==
    /\ t \in timers
    /\ out' = NoOutput
    /\ IF paused /\ ended
       THEN /\ stopExtractingBody
            /\ UNCHANGED <<frames, videoFile, eyeSide, globalFrameId, videoSrc,
                           paused, ended, muted, clock>>
       ELSE /\ globalFrameId < MaxFrameId
            /\ clock' = clock + IntervalMs
            /\ frames' = Append(frames,
                                NewFrame(globalFrameId, t.eye, videoSrc, clock'))
            /\ globalFrameId' = NextFrameId(globalFrameId)
            /\ UNCHANGED <<isExtracting, videoFile, eyeSide, frameIntervalRef,
                           timers, videoSrc, paused, ended, muted>>

\* the setInterval callback of the timer t
intervalCallback(t) ==
    /\ t \in timers
    /\ out' = NoOutput
    /\ IF paused \/ ended
       THEN /\ stopExtractingBody
            /\ UNCHANGED <<frames, videoFile, eyeSide, globalFrameId, videoSrc,
                           paused, ended, muted, clock>>
       ELSE /\ globalFrameId < MaxFrameId
            /\ clock' = clock + IntervalMs
            /\ frames' = Append(frames,
                                NewFrame(globalFrameId, t.eye, videoSrc, clock'))
            /\ globalFrameId' = NextFrameId(globalFrameId)
            /\ UNCHANGED <<isExtracting, videoFile, eyeSide, frameIntervalRef,
                           timers, videoSrc, paused, ended, muted>>

\* toggleFrameSelection(id)
toggleFrameSelection(id) ==
    /\ frames' = ToggledFrames(frames, id)
    /\ out' = NoOutput
    /\ UNCHANGED <<isExtracting, videoFile, eyeSide, globalFrameId,
                   frameIntervalRef, timers, videoSrc, paused, ended, muted,
                   clock>>

\* downloadSelectedImages (the archive export)
downloadSelectedImages ==
    /\ out' = ArchiveOutput(frames)
    /\ UNCHANGED <<frames, isExtracting, videoFile, eyeSide, globalFrameId,
                   frameIntervalRef, timers, videoSrc, paused, ended, muted,
                   clock>>

\* downloadAllImages (the individual downloads)
downloadAllImages ==
    /\ out' = DownloadOutput(frames)
    /\ UNCHANGED <<frames, isExtracting, videoFile, eyeSide, globalFrameId,
                   frameIntervalRef, timers, videoSrc, paused, ended, muted,
                   clock>>

\* an upload that forgets to clear the store
FramesAfterUpload_keep(fs) == fs

\* the store after a file was chosen: setFrames([])
FramesAfterUpload(fs) == <<>>

\* an upload that also sets the eye-side tag back to its initial value
handleVideoUpload_resetTag(file) ==
    /\ out' = NoOutput
    /\ IF file = NoFile
       THEN UNCHANGED <<frames, isExtracting, videoFile, eyeSide, globalFrameId,
                        frameIntervalRef, timers, videoSrc, paused, ended,
                        muted, clock>>
       ELSE /\ videoSrc < MaxLoads
            /\ videoFile' = file
            /\ frames' = <<>>
            /\ eyeSide' = "OD"
            /\ videoSrc' = videoSrc + 1
            /\ paused' = TRUE
            /\ ended' = FALSE
            /\ UNCHANGED <<isExtracting, globalFrameId, frameIntervalRef,
                           timers, muted, clock>>

\* handleVideoUpload; file: event.target.files?.[0], NoFile when the picker
\* was cancelled.  Setting video.src loads the new source: the element is
\* paused and no longer ended.
handleVideoUpload(file) ==
    /\ out' = NoOutput
    /\ IF file = NoFile
       THEN UNCHANGED <<frames, isExtracting, videoFile, eyeSide, globalFrameId,
                        frameIntervalRef, timers, videoSrc, paused, ended,
                        muted, clock>>
       ELSE /\ videoSrc < MaxLoads
            /\ videoFile' = file
            /\ frames' = FramesAfterUpload(frames)
            /\ videoSrc' = videoSrc + 1
            /\ paused' = TRUE
            /\ ended' = FALSE
            /\ UNCHANGED <<isExtracting, eyeSide, globalFrameId,
                           frameIntervalRef, timers, muted, clock>>

\* setEyeSide((prev) => (prev === "OD" ? "OE" : "OD"))
toggleEyeSide ==
    /\ eyeSide' = IF eyeSide = "OD" THEN "OE" ELSE "OD"
    /\ out' = NoOutput
    /\ UNCHANGED <<frames, isExtracting, videoFile, globalFrameId,
                   frameIntervalRef, timers, videoSrc, paused, ended, muted,
                   clock>>

-----------------------------------------------------------------------------
(* Environment *)

\* playback reaches the end of the video
VideoEnds ==
    /\ ~paused /\ ~ended
    /\ ended' = TRUE
    /\ paused' = TRUE
    /\ out' = NoOutput
    /\ UNCHANGED <<frames, isExtracting, videoFile, eyeSide, globalFrameId,
                   frameIntervalRef, timers, videoSrc, muted, clock>>

\* a scheduled interval fires
TimerFires == \E t \in timers : intervalCallback(t)

-----------------------------------------------------------------------------
(* The rendered page: a control runs its handler only when it is rendered  *)
(* and not disabled.                                                       *)

ControlsShown == videoFile # NoFile

ChooseVideo == \E file \in Files \cup {NoFile} : handleVideoUpload(file)

\* a start button that is never disabled
ClickStart_neverDisabled ==
    /\ ControlsShown
    /\ \E hasContext \in BOOLEAN : extractFrames(hasContext)

ClickStart ==
    /\ ControlsShown
    /\ ~isExtracting
    /\ \E hasContext \in BOOLEAN : extractFrames(hasContext)

ClickStop ==
    /\ ControlsShown
    /\ isExtracting
    /\ stopExtracting

ClickDownload ==
    /\ ControlsShown
    /\ Len(frames) # 0
    /\ downloadAllImages

ClickEyeSide ==
    /\ ControlsShown
    /\ toggleEyeSide

ClickFrame == \E i \in 1..Len(frames) : toggleFrameSelection(frames[i].id)

\* downloadSelectedImages is bound to no control of the page; it is the
\* component's archive export and is run on its own
ExportArchive == downloadSelectedImages

Next ==
    \/ ChooseVideo
    \/ ClickStart
    \/ ClickStop
    \/ ClickDownload
    \/ ClickEyeSide
    \/ ClickFrame
    \/ ExportArchive
    \/ TimerFires
    \/ VideoEnds

Spec == Init /\ [][Next]_vars

\* The page with the guarantee window.setInterval gives: a scheduled interval
\* that stays scheduled keeps firing.
SpecLive == Init /\ [][Next]_vars /\ WF_vars(TimerFires)

-----------------------------------------------------------------------------
(* The handlers run directly, in any state, without the page's controls    *)
(* in front of them.                                                       *)

CallExtractFrames == \E hasContext \in BOOLEAN : extractFrames(hasContext)
CallStopExtracting == stopExtracting
CallToggleFrameSelection == \E id \in 0..MaxFrameId : toggleFrameSelection(id)
CallDownloadSelectedImages == downloadSelectedImages
CallDownloadAllImages == downloadAllImages
CallHandleVideoUpload == \E file \in Files \cup {NoFile} : handleVideoUpload(file)
CallToggleEyeSide == toggleEyeSide

NextHandlers ==
    \/ CallExtractFrames
    \/ CallStopExtracting
    \/ CallToggleFrameSelection
    \/ CallDownloadSelectedImages
    \/ CallDownloadAllImages
    \/ CallHandleVideoUpload
    \/ CallToggleEyeSide
    \/ TimerFires
    \/ VideoEnds

SpecHandlers == Init /\ [][NextHandlers]_vars

-----------------------------------------------------------------------------
(* The page, with stopExtracting also run in states where the stop button  *)
(* is disabled: stop() as an operation that may be called when capture is  *)
(* already stopped.                                                        *)

NextStopAnytime ==
    \/ Next
    \/ CallStopExtracting

SpecStopAnytime == Init /\ [][NextStopAnytime]_vars

-----------------------------------------------------------------------------
(* Properties *)

\* the frame last appended to the store
LastFrame(fs) == fs[Len(fs)]

\* whether frame i of the store belongs to the export set: the selected
\* frames when there is one, else every frame
InExportSet(fs, i) == (\E j \in 1..Len(fs) : fs[j].selected) => fs[i].selected

\* the number of export-set frames among the first i frames of the store,
\* which is the place of frame i in the export set
ExportRank(fs, i) == Cardinality({j \in 1..i : InExportSet(fs, j)})

\* C1: each captured frame carries the eye-side tag that is current at the
\* moment of its capture tick, so a frame captured after the user toggled the
\* tag carries the new tag.
C1_FrameCarriesCurrentTag ==
    [][ Len(frames') = Len(frames) + 1
            => LastFrame(frames').eyeSide = eyeSide ]_vars

\* C2: the archive export invoked on a non-empty store with no frame selected
\* delivers an archive with one file for every frame of the store and a
\* manifest with one entry for every frame.
C2_ArchiveFallsBackToAll ==
    (out.op = "downloadSelectedImages" /\ frames # <<>>
        /\ \A i \in 1..Len(frames) : ~frames[i].selected)
    => /\ Len(out.saved) = 1
       /\ LET zip == out.saved[1].zip
          IN  /\ \A i \in 1..Len(frames) :
                    \E e \in zip : ~e.dir /\ e.name =
                        frames[i].eyeSide \o "/" \o frames[i].fileName
              /\ \E m \in zip :
                    /\ m.name = "frames_info.json"
                    /\ Len(m.data[2]) = Len(frames)

\* C3: the individual download issues exactly one download for each frame of
\* the export set (the selected frames, or every frame when none is
\* selected), none for any other frame, in store order, each under the
\* frame's fileName.
C3_DownloadsAreExportSet ==
    out.op = "downloadAllImages" /\ frames # <<>>
    => /\ Len(out.downloads) = ExportRank(frames, Len(frames))
       /\ \A i \in 1..Len(frames) :
            InExportSet(frames, i) =>
                /\ out.downloads[ExportRank(frames, i)].download = frames[i].fileName
                /\ out.downloads[ExportRank(frames, i)].href = frames[i].uri

\* C3 witness: a download of two selected frames out of three, with the
\* unselected frame between them
C3_Witness ==
    /\ out.op = "downloadAllImages"
    /\ Len(frames) = 3
    /\ frames[1].selected /\ ~frames[2].selected /\ frames[3].selected
    /\ Len(out.downloads) = 2

\* the value the id counter had when the frames of the store began to be
\* captured
IdBase == globalFrameId - Len(frames)

\* C4 as claimed: after any video load the frames of the store have the ids
\* 0..N-1 in store order.
C4_IdsFromZeroAfterAnyLoad ==
    \A i \in 1..Len(frames) : frames[i].id = i - 1

\* C4 as amended: a tick that fires while the video plays appends exactly one
\* frame; the frames captured since the store was emptied by the load of a
\* video have the consecutive ids g..g+N-1 in store order, where g is the
\* value of the id counter at that load, which stays the same until the next
\* load; g is 0 for the first video loaded.
C4_ConsecutiveIdsFromCounter ==
    /\ [](\A i \in 1..Len(frames) : frames[i].id = IdBase + i - 1)
    /\ [](videoSrc <= 1 => IdBase = 0)
    /\ [][ /\ \A t \in timers :
                (intervalCallback(t) /\ ~paused /\ ~ended)
                    => /\ Len(frames') = Len(frames) + 1
                       /\ SubSeq(frames', 1, Len(frames)) = frames
                       /\ LastFrame(frames').id = globalFrameId
           /\ videoSrc' = videoSrc => IdBase' = IdBase
           /\ videoSrc' # videoSrc => IdBase' = globalFrameId /\ frames' = <<>>
         ]_vars

\* C4 witness: two frames captured from the second video loaded, after one
\* frame was captured from the first
C4_Witness ==
    /\ videoSrc = 2
    /\ Len(frames) = 2
    /\ frames[1].id = 1 /\ frames[2].id = 2

\* C5: the ids of the store are strictly increasing in store order (hence
\* pairwise distinct) and below the counter; the counter never decreases,
\* and a frame that enters the store gets an id not below the counter's value
\* before the step, so no id is assigned twice.
C5_IdsUniqueAndNeverReused ==
    /\ [](\A i, j \in 1..Len(frames) : i < j => frames[i].id < frames[j].id)
    /\ [](\A i \in 1..Len(frames) : frames[i].id < globalFrameId)
    /\ [][ /\ globalFrameId' >= globalFrameId
           /\ Len(frames') > Len(frames)
                => /\ LastFrame(frames').id >= globalFrameId
                   /\ globalFrameId' > LastFrame(frames').id ]_vars

\* C5 witness: frames of a second video in the store, captured over a stop
\* and a restart, after an id was used for a frame of the first video
C5_Witness ==
    /\ videoSrc = 2
    /\ Len(frames) = 2
    /\ frames[1].id > 0
    /\ frames[1].eyeSide # frames[2].eyeSide

\* C6: a frame that stays in the store keeps its id, eyeSide and fileName, and
\* its place in the store, in every step.
C6_FrameFieldsImmutable ==
    [][ \A i \in 1..Len(frames) : \A j \in 1..Len(frames') :
            frames'[j].id = frames[i].id
                => /\ j = i
                   /\ frames'[j].eyeSide = frames[i].eyeSide
                   /\ frames'[j].fileName = frames[i].fileName ]_vars

\* C6 witness: a selected frame whose eyeSide differs from the current tag,
\* with a later frame in the store and capture running
C6_Witness ==
    /\ Len(frames) >= 2
    /\ frames[1].selected
    /\ frames[1].eyeSide # eyeSide
    /\ isExtracting

\* the store without the selection flags
Unselected(fs) == [i \in 1..Len(fs) |-> [fs[i] EXCEPT !.selected = FALSE]]

\* C7: a step changes the frame sequence only by a capture tick that appends
\* one frame at the end, or by the load of a video, which empties the store;
\* the load of a video always leaves the store empty; stop, start, eye-side
\* toggle, selection toggle and the exports leave the sequence as it is.
C7_AppendOrReset ==
    [][ /\ \/ Unselected(frames') = Unselected(frames)
           \/ /\ TimerFires
              /\ Len(frames') = Len(frames) + 1
              /\ SubSeq(frames', 1, Len(frames)) = frames
           \/ /\ videoSrc' # videoSrc
              /\ frames' = <<>>
        /\ videoSrc' # videoSrc => frames' = <<>>
        /\ (ClickStart \/ ClickStop \/ ClickEyeSide \/ ClickFrame
                \/ ClickDownload \/ ExportArchive)
            => Unselected(frames') = Unselected(frames) ]_vars

\* C7 witness: a store emptied by the load of a second video while capture
\* was running, after frames had been captured
C7_Witness ==
    /\ videoSrc = 2
    /\ frames = <<>>
    /\ globalFrameId >= 2
    /\ isExtracting

\* the file entries of an archive other than the manifest
FrameEntries(zip) == {e \in zip : ~e.dir /\ e.name # "frames_info.json"}

\* C8: a delivered archive holds, for each frame of the export set, exactly
\* one file, in the folder named after the frame's eyeSide and under the
\* frame's fileName, no other frame file, and at its root one manifest
\* frames_info.json with one entry per export-set frame, in export-set
\* order, with the frame's id, fileName and eyeSide.
C8_ArchiveMatchesExportSet ==
    out.op = "downloadSelectedImages" /\ out.saved # <<>>
    => /\ Len(out.saved) = 1
       /\ LET zip == out.saved[1].zip
              n == ExportRank(frames, Len(frames))
          IN  /\ Cardinality(FrameEntries(zip)) = n
              /\ \A i \in 1..Len(frames) :
                    InExportSet(frames, i) =>
                        /\ frames[i].eyeSide \in EyeSides
                        /\ Cardinality({e \in FrameEntries(zip) : e.name =
                              frames[i].eyeSide \o "/" \o frames[i].fileName}) = 1
              /\ Cardinality({m \in zip : m.name = "frames_info.json"}) = 1
              /\ \A m \in zip : m.name = "frames_info.json" =>
                    /\ ~m.dir
                    /\ Len(m.data[2]) = n
                    /\ \A i \in 1..Len(frames) :
                          InExportSet(frames, i) =>
                              LET entry == m.data[2][ExportRank(frames, i)]
                              IN  /\ entry.id = frames[i].id
                                  /\ entry.fileName = frames[i].fileName
                                  /\ entry.eyeSide = frames[i].eyeSide

\* C8 witness: an archive of the first and third of three frames, one of
\* each eye side, the second frame left out
C8_Witness ==
    /\ out.op = "downloadSelectedImages"
    /\ Len(out.saved) = 1
    /\ Len(frames) = 3
    /\ frames[1].selected /\ ~frames[2].selected /\ frames[3].selected
    /\ frames[1].eyeSide = "OD" /\ frames[3].eyeSide = "OE"

\* C9: an export invoked on an empty store shows one notice (the one of its
\* handler), triggers no download, delivers no archive, and leaves the store,
\* the running state, the timers, the id counter and the tag as they were.
C9_EmptyExportOnlyNotifies ==
    [][ (frames = <<>> /\ out'.op # "none")
        => /\ out'.downloads = <<>>
           /\ out'.saved = <<>>
           /\ out'.op = "downloadAllImages"
                => out'.alerts = <<AlertNothingToDownload>>
           /\ out'.op = "downloadSelectedImages"
                => out'.alerts = <<AlertNoneSelected>>
           /\ UNCHANGED <<frames, isExtracting, frameIntervalRef, timers,
                          globalFrameId, eyeSide, videoFile, videoSrc>> ]_vars

\* C9 witness: the individual download was invoked on the empty store of a
\* loaded video, after frames had been captured from an earlier one
C9_Witness ==
    /\ frames = <<>>
    /\ globalFrameId > 0
    /\ out.op = "downloadAllImages"
    /\ out.alerts = <<AlertNothingToDownload>>

\* C10: every frame's fileName is frame_<id>_<eyeSide>.png of its own id and
\* eyeSide, and distinct frames have distinct file names.
C10_FileNameFromOwnFields ==
    /\ \A i \in 1..Len(frames) :
          /\ frames[i].eyeSide \in EyeSides
          /\ frames[i].fileName =
                "frame_" \o ToString(frames[i].id) \o "_" \o frames[i].eyeSide \o ".png"
    /\ \A i, j \in 1..Len(frames) :
          i # j => frames[i].fileName # frames[j].fileName

\* C10 witness: frames of both eye sides in the store, the last one captured
\* under a tag that has been toggled since
C10_Witness ==
    /\ Len(frames) = 3
    /\ frames[1].eyeSide # frames[3].eyeSide
    /\ frames[3].eyeSide # eyeSide
    /\ frames[3].fileName = "frame_" \o ToString(frames[3].id) \o "_"
                                \o frames[3].eyeSide \o ".png"

\* the ids of the frames of a store
FrameIds(fs) == {fs[i].id : i \in 1..Len(fs)}

\* C11: toggling the selection of a frame of the store flips the selected
\* flag of that frame and changes no other frame and no other field, and
\* toggling it a second time gives the store as it was before.
C11_ToggleFlipsOneAndIsInvolution ==
    /\ [](\A id \in FrameIds(frames) :
            ToggledFrames(ToggledFrames(frames, id), id) = frames)
    /\ [][ \A id \in FrameIds(frames) :
             toggleFrameSelection(id)
                => /\ Len(frames') = Len(frames)
                   /\ \A i \in 1..Len(frames) :
                        IF frames[i].id = id
                        THEN /\ frames'[i].selected = ~frames[i].selected
                             /\ [frames'[i] EXCEPT !.selected = frames[i].selected]
                                    = frames[i]
                        ELSE frames'[i] = frames[i]
                   /\ UNCHANGED <<isExtracting, eyeSide, globalFrameId,
                                  frameIntervalRef, timers, videoFile, videoSrc>>
         ]_vars

\* C11 witness: the second of three frames selected by a toggle, the other
\* two not selected
C11_Witness ==
    /\ Len(frames) = 3
    /\ ~frames[1].selected /\ frames[2].selected /\ ~frames[3].selected
    /\ out = NoOutput

\* C12: toggling the selection of an id that no frame of the store has, such
\* as the id of a frame that a video load removed, changes nothing and shows
\* nothing.
C12_ToggleOfAbsentIdIsNoOp ==
    [][ \A id \in (0..MaxFrameId) \ FrameIds(frames) :
          toggleFrameSelection(id)
             => /\ UNCHANGED <<frames, isExtracting, videoFile, eyeSide,
                               globalFrameId, frameIntervalRef, timers,
                               videoSrc, paused, ended, muted, clock>>
                /\ out' = NoOutput ]_vars

\* C12 witness: a store of the second video with a selected and an unselected
\* frame, id 0 being that of a frame removed by the load, as a toggle of id 0
\* leaves it
C12_Witness ==
    /\ videoSrc = 2
    /\ Len(frames) = 2
    /\ frames[1].id = 1
    /\ frames[1].selected /\ ~frames[2].selected
    /\ out = NoOutput

\* C13: at most one capture timer is scheduled at any time, it is the one
\* frameIntervalRef names, and a step never overwrites the handle of a timer
\* that stays scheduled; while capture runs the start control cannot run
\* extractFrames.
C13_AtMostOneTimer ==
    /\ [](Cardinality(timers) <= 1)
    /\ [](\A t \in timers : t.h = frameIntervalRef)
    /\ [](isExtracting => ~ENABLED ClickStart)
    /\ [][ \A t \in timers :
             t \in timers' => frameIntervalRef' = frameIntervalRef ]_vars

\* C13 witness: capture running on one timer after a stop and a restart
\* (frames of both eye sides were captured from the same video)
C13_Witness ==
    /\ isExtracting
    /\ Cardinality(timers) = 1
    /\ Len(frames) = 2
    /\ frames[1].eyeSide # frames[2].eyeSide
    /\ ~ENABLED ClickStart

\* C14: a tick that fires while the video is paused or ended appends no
\* frame, leaves the id counter, cancels the timer and ends the running
\* state; while no timer is scheduled no tick can fire and no frame is
\* appended, and only extractFrames schedules a timer again.
C14_TickOnStoppedVideoStopsCapture ==
    /\ [][ \A t \in timers :
             (intervalCallback(t) /\ (paused \/ ended))
                => /\ frames' = frames
                   /\ globalFrameId' = globalFrameId
                   /\ timers' = {}
                   /\ frameIntervalRef' = NoTimer
                   /\ ~isExtracting' ]_vars
    /\ [](timers = {} => ~ENABLED TimerFires)
    /\ [][ timers = {}
             => /\ Len(frames') <= Len(frames)
                /\ globalFrameId' = globalFrameId
                /\ timers' # {} => (isExtracting' /\ ~paused' /\ ClickStart)
         ]_vars

\* C14 witness: capture stopped with no timer left and the video ended, with
\* the frames captured before the end in the store, as the tick after the
\* end of the video leaves it
C14_Witness ==
    /\ ended
    /\ ~isExtracting
    /\ timers = {}
    /\ frameIntervalRef = NoTimer
    /\ Len(frames) = 2
    /\ globalFrameId = 2

\* C15: stopExtracting, from any state, leaves no timer scheduled and the
\* running flag false, and leaves the store with its selection flags, the id
\* counter, the tag and the video as they were; run when capture is already
\* stopped it changes nothing, so running it twice is the same as once.
C15_StopIsIdempotentAndSafe ==
    /\ [][ stopExtracting
             => /\ timers' = {}
                /\ frameIntervalRef' = NoTimer
                /\ ~isExtracting'
                /\ out' = NoOutput
                /\ UNCHANGED <<frames, globalFrameId, eyeSide, videoFile,
                               videoSrc, paused, ended, muted, clock>> ]_vars
    /\ [][ (stopExtracting /\ ~isExtracting /\ timers = {})
             => UNCHANGED <<frames, isExtracting, videoFile, eyeSide,
                            globalFrameId, frameIntervalRef, timers, videoSrc,
                            paused, ended, muted, clock>> ]_vars
    /\ [](~isExtracting => ENABLED stopExtracting)

\* C15 witness: capture stopped while the video plays on, with a selected
\* frame in the store and the tag toggled, as a stop (a first or a repeated
\* one) leaves it
C15_Witness ==
    /\ ~isExtracting
    /\ timers = {}
    /\ frameIntervalRef = NoTimer
    /\ ~paused
    /\ Len(frames) = 2
    /\ frames[2].selected
    /\ eyeSide = "OE"
    /\ out = NoOutput

\* C16 as claimed: the tag does not persist across a video load; the tag in
\* effect after a load does not depend on the tag before it, so it is the
\* initial tag OD, the only value the component gives the tag by itself.
C16_LoadResetsTag ==
    [][ videoSrc' # videoSrc => eyeSide' = "OD" ]_vars

\* C16 as amended: the tag persists across a video load: the load leaves the
\* tag as it was, and the timer scheduled by the next start captures the tag
\* of that moment, whichever video is loaded.
C16_TagSurvivesLoad ==
    [][ /\ videoSrc' # videoSrc => eyeSide' = eyeSide
        /\ \A t \in timers' \ timers : t.eye = eyeSide /\ eyeSide' = eyeSide
      ]_vars

\* C16 witness: the first frame captured from the second video carries OE,
\* the initial tag being OD
C16_Witness ==
    /\ videoSrc = 2
    /\ Len(frames) = 1
    /\ frames[1].eyeSide = "OE"
    /\ eyeSide = "OE"

\* C17: a start that finds no canvas context (or no canvas or video
\* element) captures nothing: it appends no frame, leaves the id counter,
\* schedules no timer, shows nothing, and does not leave the running flag set
\* with no timer scheduled.
C17_StartWithoutSurfaceIsSkipped ==
    [][ extractFrames(FALSE)
          => /\ frames' = frames
             /\ globalFrameId' = globalFrameId
             /\ timers' = timers
             /\ frameIntervalRef' = frameIntervalRef
             /\ out' = NoOutput
             /\ ~(isExtracting' /\ timers' = {})
             /\ UNCHANGED <<isExtracting, paused, ended, muted, eyeSide,
                            videoFile, videoSrc, clock>> ]_vars

\* C17 witness: a video is loaded and nothing has run: no start has got as
\* far as muting the video, as a start without a context leaves it
C17_Witness ==
    /\ ControlsShown
    /\ ~isExtracting
    /\ timers = {}
    /\ ~muted
    /\ paused
    /\ frames = <<>>
    /\ globalFrameId = 0
    /\ ENABLED extractFrames(FALSE)

\* C18: the running flag is true exactly when frameIntervalRef holds a
\* handle, and exactly when a capture timer is scheduled, which is then the
\* one the ref names.
C18_RunningIffTimerScheduled ==
    /\ isExtracting <=> frameIntervalRef # NoTimer
    /\ isExtracting <=> timers # {}
    /\ \A t \in timers : t.h = frameIntervalRef

\* C18 witness: capture running on a scheduled timer while the video is
\* paused by the load of a second video
C18_Witness ==
    /\ isExtracting
    /\ frameIntervalRef # NoTimer
    /\ timers # {}
    /\ paused
    /\ videoSrc = 2

\* C19: whenever capture is running and the video is paused or ended (the
\* playback reached its end, or a new file was loaded during capture), the
\* capture reaches the not-running state with no timer scheduled, by the
\* timer's firing alone; while capture runs nothing resumes the video.
C19_CaptureStopsAfterVideoStops ==
    /\ (isExtracting /\ (paused \/ ended)) ~> (~isExtracting /\ timers = {})
    /\ [][ (isExtracting /\ (paused \/ ended) /\ isExtracting')
              => (paused' \/ ended') ]_vars

\* C19 witness: capture still running on its timer after the video it was
\* capturing, with a frame taken, reached its end
C19_Witness ==
    /\ isExtracting
    /\ timers # {}
    /\ ended
    /\ Len(frames) = 1
    /\ videoSrc = 1

=============================================================================
